---- MODULE Spec2Model ----
(***************************************************************************)
(* One invocation of the seclai command-line client (runCli): commander    *)
(* parses argv into a leaf of the command tree, the leaf's action builds   *)
(* the client, resolves its input, issues one client operation and prints  *)
(* the result, run() normalises any failure, and runCli settles the exit   *)
(* code.  Source: src/unnamed/part_002 (the CLI module).                   *)
(***************************************************************************)
EXTENDS Integers, Sequences, FiniteSets, TLC

\* Largest number of positional words typed after the command path.
MaxArgs == 2

(***************************************************************************)
(* JavaScript values.  A value is a record [t, s, o]: its type tag, its    *)
(* text (for scalars) and its own enumerable properties in insertion order *)
(* (for objects).  A property is [k, t, s]: key and a scalar value.        *)
(***************************************************************************)
Val(t, s, o) == [t |-> t, s |-> s, o |-> o]

Undefined == Val("undefined", "", <<>>)

Str(s) == Val("string", s, <<>>)

Num(s) == Val("number", s, <<>>)

JsTrue == Val("boolean", "true", <<>>)

Bytes(s) == Val("Uint8Array", s, <<>>)

Entry(k, v) == [k |-> k, t |-> v.t, s |-> v.s]

Obj(entries) == Val("object", "", entries)

\* The commander Command instance handed to an action after the options
\* object; options are not stored as its properties.
CommandObject == Val("Command", "", <<>>)

\* Own keys of an object, also those whose value is undefined.
Keys(v) == {v.o[i].k : i \in 1..Len(v.o)}

\* Property read obj.k: undefined when the key is absent.
Get(v, key) ==
  IF \E i \in 1..Len(v.o) : v.o[i].k = key
  THEN LET i == CHOOSE j \in 1..Len(v.o) : v.o[j].k = key
       IN Val(v.o[i].t, v.o[i].s, <<>>)
  ELSE Undefined

\* JavaScript truthiness.
Truthy(v) ==
  ~ \/ v.t \in {"undefined", "null"}
    \/ v.t = "boolean" /\ v.s = "false"
    \/ v.t = "string" /\ v.s = ""
    \/ v.t = "number" /\ v.s \in {"0", "NaN"}

\* Texts that Number() reads as a finite decimal number.
NumericTexts == {"0", "2", "10", "1234", "5000"}

\* The option converter (v) => Number(v).
NumberOf(raw) == IF raw \in NumericTexts THEN Num(raw) ELSE Num("NaN")

(***************************************************************************)
(* JSON.stringify(value, null, 2) and JSON.parse.                          *)
(***************************************************************************)
ScalarJson(t, s) ==
  CASE t = "string" -> "\"" \o s \o "\""
    [] t = "number" -> (IF s = "NaN" THEN "null" ELSE s)
    [] t = "boolean" -> s
    [] OTHER -> "null"

RECURSIVE JoinMembers(_)
JoinMembers(es) ==
  IF Len(es) = 0 THEN ""
  ELSE "  \"" \o es[1].k \o "\": " \o ScalarJson(es[1].t, es[1].s)
       \o (IF Len(es) = 1 THEN "\n" ELSE ",\n" \o JoinMembers(Tail(es)))

\* Properties whose value is undefined are skipped; stringify of undefined
\* itself is undefined, not a text.
JsonStringify(v) ==
  CASE v.t = "undefined" -> Undefined
    [] v.t \in {"object", "Command"} ->
         LET kept == SelectSeq(v.o, LAMBDA e : e.t # "undefined")
         IN IF Len(kept) = 0 THEN Str("{}")
            ELSE Str("{\n" \o JoinMembers(kept) \o "}")
    [] OTHER -> Str(ScalarJson(v.t, v.s))

\* Interpolation `${x}` of a value in a template string.
Interpolate(v) == IF v.t = "undefined" THEN "undefined" ELSE v.s

\* Request bodies used as inputs, as texts.
GoodJson == "{\"input\":\"hi\"}"

BadJson == "{bad"

\* JSON.parse: the parsed value, or undefined-tagged "SyntaxError".
JsonParse(text) ==
  CASE text = GoodJson -> Obj(<<Entry("input", Str("hi"))>>)
    [] text = "{}" -> Obj(<<>>)
    [] text = "2" -> Num("2")
    [] OTHER -> Val("SyntaxError", text, <<>>)

(***************************************************************************)
(* The command tree declared by createProgram.                             *)
(***************************************************************************)
Child(name, alias, node) == [name |-> name, alias |-> alias, node |-> node]

\* .command(name) / .alias(alias) declarations, per parent node.
Children(node) ==
  CASE node = "seclai" ->
         { Child("sources", "source", "sources"),
           Child("agents", "", "agents"),
           Child("runs", "agent-runs", "runs"),
           Child("contents", "", "contents") }
    [] node = "sources" ->
         { Child("list", "", "sources list"),
           Child("upload", "", "sources upload") }
    [] node = "agents" ->
         { Child("run", "", "agents run"),
           Child("runs", "", "agents runs") }
    [] node = "agents runs" ->
         { Child("list", "", "agents runs list"),
           Child("get", "", "agents runs get"),
           Child("delete", "", "agents runs delete") }
    [] node = "runs" ->
         { Child("get", "", "runs get"),
           Child("delete", "", "runs delete") }
    [] node = "contents" ->
         { Child("get", "", "contents get"),
           Child("delete", "", "contents delete"),
           Child("embeddings", "", "contents embeddings") }
    [] OTHER -> {}

Leaves ==
  { "sources list", "sources upload", "agents run", "agents runs list",
    "agents runs get", "agents runs delete", "runs get", "runs delete",
    "contents get", "contents delete", "contents embeddings" }

Groups == {"seclai", "sources", "agents", "agents runs", "runs", "contents"}

\* .argument("<name>") declarations of each leaf, in order.
DeclaredArgs(leaf) ==
  CASE leaf = "sources list" -> <<>>
    [] leaf = "sources upload" -> <<"sourceConnectionId">>
    [] leaf = "agents run" -> <<"agentId">>
    [] leaf = "agents runs list" -> <<"agentId">>
    [] leaf = "agents runs get" -> <<"runId">>
    [] leaf = "agents runs delete" -> <<"runId">>
    [] leaf = "runs get" -> <<"runId">>
    [] leaf = "runs delete" -> <<"runId">>
    [] OTHER -> <<"sourceConnectionContentVersion">>

\* .option / .requiredOption declarations of each leaf, in order.
OptionNames(leaf) ==
  CASE leaf = "sources list" -> <<"page", "limit", "sort", "order", "account-id">>
    [] leaf = "sources upload" -> <<"file", "title", "file-name", "mime-type">>
    [] leaf = "agents run" -> <<"json", "json-file", "stream", "timeout-ms">>
    [] leaf = "agents runs list" -> <<"page", "limit">>
    [] leaf = "agents runs get" -> <<"include-step-outputs">>
    [] leaf = "runs get" -> <<"include-step-outputs">>
    [] leaf = "contents get" -> <<"start", "end">>
    [] leaf = "contents embeddings" -> <<"page", "limit">>
    [] OTHER -> <<>>

\* .requiredOption declarations.
MandatoryOptions(leaf) == IF leaf = "sources upload" THEN {"file"} ELSE {}

AllFlags ==
  { "page", "limit", "sort", "order", "account-id", "file", "title",
    "file-name", "mime-type", "json", "json-file", "stream", "timeout-ms",
    "include-step-outputs", "start", "end" }

\* Options declared with the converter (v) => Number(v).
NumericFlags == {"page", "limit", "start", "end", "timeout-ms"}

\* Options declared without a value placeholder.
BooleanFlags == {"stream", "include-step-outputs"}

\* commander's camel-cased key of an option in the options object.
Camel(flag) ==
  CASE flag = "account-id" -> "accountId"
    [] flag = "file-name" -> "fileName"
    [] flag = "mime-type" -> "mimeType"
    [] flag = "json-file" -> "jsonFile"
    [] flag = "timeout-ms" -> "timeoutMs"
    [] flag = "include-step-outputs" -> "includeStepOutputs"
    [] OTHER -> flag

RangeOf(seq) == {seq[i] : i \in 1..Len(seq)}

\* The options object commander hands to the action: one key per option the
\* user supplied, converted by the option's converter.
ParseOptions(leaf, flags) ==
  LET given == SelectSeq(OptionNames(leaf), LAMBDA f : f \in DOMAIN flags)
      value(f) == CASE f \in BooleanFlags -> JsTrue
                    [] f \in NumericFlags -> NumberOf(flags[f])
                    [] OTHER -> Str(flags[f])
  IN Obj([i \in 1..Len(given) |-> Entry(Camel(given[i]), value(given[i]))])

\* Variant of FindCommand that ignores aliases.
FindCommandByName(node, word) == {c \in Children(node) : c.name = word}

\* commander's _findCommand: a word selects the child with that name or alias.
FindCommand(node, word) ==
  {c \in Children(node) : c.name = word \/ (c.alias # "" /\ c.alias = word)}

\* Descend from a node along the typed command words; "?" when a word names
\* no child of the node reached.
RECURSIVE Resolve(_, _)
Resolve(node, words) ==
  IF Len(words) = 0 THEN node
  ELSE LET found == FindCommand(node, Head(words))
       IN IF found = {} THEN "?"
          ELSE Resolve((CHOOSE c \in found : TRUE).node, Tail(words))

HelpText(node) == "Usage: " \o node \o " [options]\n"

(***************************************************************************)
(* What program.parseAsync(argv) does before any action runs.  Result:     *)
(*   kind "version" | "help"      text on the output sink, CommanderError 0 *)
(*   kind "groupHelp" | "usage"   text on the error sink, CommanderError 1  *)
(*   kind "dispatch"              the leaf action is called with params     *)
(***************************************************************************)
Outcome(kind, node, text, code, params) ==
  [kind |-> kind, node |-> node, text |-> text, code |-> code, params |-> params]

\* Variant of ParseOutcome that lets undeclared options through.
ParseOutcomeIgnoringUnknownOptions(a, version, allowExcess) ==
  LET node == Resolve("seclai", a.cmd)
      decl == IF node \in Leaves THEN DeclaredArgs(node) ELSE <<>>
  IN CASE a.top = "version" ->
            Outcome("version", "seclai", version \o "\n", 0, <<>>)
       [] a.top = "help" ->
            Outcome("help", node, HelpText(IF node = "?" THEN "seclai" ELSE node), 0, <<>>)
       [] node = "?" \/ (node \in Groups /\ Len(a.args) > 0) ->
            Outcome("usage", node, "error: unknown command\n", 1, <<>>)
       [] node \in Groups ->
            Outcome("groupHelp", node, HelpText(node), 1, <<>>)
       [] ~ (MandatoryOptions(node) \subseteq DOMAIN a.flags) ->
            Outcome("usage", node, "error: required option not specified\n", 1, <<>>)
       [] Len(a.args) < Len(decl) ->
            Outcome("usage", node, "error: missing required argument\n", 1, <<>>)
       [] Len(a.args) > Len(decl) /\ ~ allowExcess ->
            Outcome("usage", node, "error: too many arguments\n", 1, <<>>)
       [] OTHER ->
            Outcome("dispatch", node, "", 0,
                    [i \in 1..Len(decl) |-> Str(a.args[i])]
                      \o <<ParseOptions(node, a.flags), CommandObject>>)

ParseOutcome(a, version, allowExcess) ==
  LET node == Resolve("seclai", a.cmd)
      decl == IF node \in Leaves THEN DeclaredArgs(node) ELSE <<>>
  IN CASE a.top = "version" ->
            Outcome("version", "seclai", version \o "\n", 0, <<>>)
       [] a.top = "help" ->
            Outcome("help", node, HelpText(IF node = "?" THEN "seclai" ELSE node), 0, <<>>)
       [] node = "?" \/ (node \in Groups /\ Len(a.args) > 0) ->
            Outcome("usage", node, "error: unknown command\n", 1, <<>>)
       [] node \in Groups ->
            Outcome("groupHelp", node, HelpText(node), 1, <<>>)
       [] ~ (MandatoryOptions(node) \subseteq DOMAIN a.flags) ->
            Outcome("usage", node, "error: required option not specified\n", 1, <<>>)
       [] ~ (DOMAIN a.flags \subseteq RangeOf(OptionNames(node))) ->
            Outcome("usage", node, "error: unknown option\n", 1, <<>>)
       [] Len(a.args) < Len(decl) ->
            Outcome("usage", node, "error: missing required argument\n", 1, <<>>)
       [] Len(a.args) > Len(decl) /\ ~ allowExcess ->
            Outcome("usage", node, "error: too many arguments\n", 1, <<>>)
       [] OTHER ->
            Outcome("dispatch", node, "", 0,
                    [i \in 1..Len(decl) |-> Str(a.args[i])]
                      \o <<ParseOptions(node, a.flags), CommandObject>>)

(***************************************************************************)
(* Thrown values.  cls is the class of the thrown object ("value" for a    *)
(* thrown non-error such as a string, whose text is in message).           *)
(***************************************************************************)
Err(cls, name, message, statusCode, url, responseText, validationError) ==
  [ cls |-> cls, name |-> name, message |-> message, statusCode |-> statusCode,
    url |-> url, responseText |-> responseText, validationError |-> validationError ]

NoError == Err("none", "", "", "", "", Undefined, Undefined)

PlainError(message) == Err("Error", "Error", message, "", "", Undefined, Undefined)

SyntaxError(message) == Err("SyntaxError", "SyntaxError", message, "", "", Undefined, Undefined)

ConfigurationError(message) ==
  Err("SeclaiConfigurationError", "SeclaiConfigurationError", message, "", "",
      Undefined, Undefined)

StatusError(message, code, url, responseText) ==
  Err("SeclaiAPIStatusError", "SeclaiAPIStatusError", message, code, url,
      responseText, Undefined)

ValidationError(message, code, url, responseText, detail) ==
  Err("SeclaiAPIValidationError", "SeclaiAPIValidationError", message, code, url,
      responseText, detail)

ThrownValue(text) == Err("value", "", text, "", "", Undefined, Undefined)

\* instanceof along the class chain Validation < Status < SeclaiError < Error.
InstanceOfValidation(e) == e.cls = "SeclaiAPIValidationError"

InstanceOfStatus(e) == e.cls \in {"SeclaiAPIStatusError", "SeclaiAPIValidationError"}

InstanceOfConfiguration(e) == e.cls = "SeclaiConfigurationError"

InstanceOfError(e) == e.cls \notin {"value", "none"}

(***************************************************************************)
(* Writes to the runtime's sinks, in program order.                        *)
(***************************************************************************)
Write(sink, text) == [sink |-> sink, text |-> text]

\* printJson: the pretty JSON of the value and a newline, to writeOut.
PrintJson(value) == <<Write("out", Interpolate(JsonStringify(value)) \o "\n")>>

\* Variant of PrintError that writes the url line before the status line.
PrintErrorUrlFirst(e) ==
  LET head == <<Write("err", e.name \o ": " \o e.message \o "\n")>>
      status == << Write("err", "url: " \o e.url \o "\n"),
                   Write("err", "status: " \o e.statusCode \o "\n") >>
      response == IF Truthy(e.responseText)
                  THEN <<Write("err", "response: " \o e.responseText.s \o "\n")>>
                  ELSE <<>>
  IN CASE InstanceOfValidation(e) ->
            head \o status \o response \o
              (IF Truthy(e.validationError)
               THEN PrintJson(Obj(<<Entry("validationError", e.validationError)>>))
               ELSE <<>>)
       [] InstanceOfStatus(e) -> head \o status \o response
       [] InstanceOfConfiguration(e) -> head
       [] InstanceOfError(e) -> head
       [] OTHER -> <<Write("err", e.message), Write("err", "\n")>>

\* printError: the writes it performs for a caught value.
PrintError(e) ==
  LET head == <<Write("err", e.name \o ": " \o e.message \o "\n")>>
      status == << Write("err", "status: " \o e.statusCode \o "\n"),
                   Write("err", "url: " \o e.url \o "\n") >>
      response == IF Truthy(e.responseText)
                  THEN <<Write("err", "response: " \o e.responseText.s \o "\n")>>
                  ELSE <<>>
  IN CASE InstanceOfValidation(e) ->
            head \o status \o response \o
              (IF Truthy(e.validationError)
               THEN PrintJson(Obj(<<Entry("validationError", e.validationError)>>))
               ELSE <<>>)
       [] InstanceOfStatus(e) -> head \o status \o response
       [] InstanceOfConfiguration(e) -> head
       [] InstanceOfError(e) -> head
       [] OTHER -> <<Write("err", e.message), Write("err", "\n")>>

(***************************************************************************)
(* The client operation each leaf action issues.  p is the list of values  *)
(* commander passes to the action: the declared arguments, then the        *)
(* options object, then the command; the action binds them to its formal   *)
(* parameters by position.                                                 *)
(***************************************************************************)
Call(op, args) == [op |-> op, args |-> args]

Param(p, i) == IF i <= Len(p) THEN p[i] ELSE Undefined

\* { k1: opts.k1, k2: opts.k2, ... }: an object literal with every key listed.
Literal(opts, keys) == Obj([i \in 1..Len(keys) |-> Entry(keys[i], Get(opts, keys[i]))])

\* if (opts.k !== undefined) target.k = opts.k, for each key in turn.
CopyDefined(opts, keys) ==
  LET present == SelectSeq(keys, LAMBDA k : Get(opts, k).t # "undefined")
  IN [i \in 1..Len(present) |-> Entry(present[i], Get(opts, present[i]))]

SourcesListCall(p) ==
  Call("listSources",
       <<Literal(Param(p, 1), <<"page", "limit", "sort", "order", "accountId">>)>>)

SourcesUploadCall(p, bytes) ==
  Call("uploadFileToSource",
       << Param(p, 1),
          Obj(<<Entry("file", bytes)>>
              \o CopyDefined(Param(p, 2), <<"title", "fileName", "mimeType">>)) >>)

\* Variant of AgentsRunCall that always passes an options object when streaming.
AgentsRunCallAlwaysOptions(p, payload) ==
  LET opts == Param(p, 2)
  IN IF Truthy(Get(opts, "stream"))
     THEN Call("runStreamingAgentAndWait",
               << Param(p, 1), payload,
                  Obj(<<Entry("timeoutMs", Get(opts, "timeoutMs"))>>) >>)
     ELSE Call("runAgent", <<Param(p, 1), payload>>)

AgentsRunCall(p, payload) ==
  LET opts == Param(p, 2)
  IN IF Truthy(Get(opts, "stream"))
     THEN Call("runStreamingAgentAndWait",
               << Param(p, 1), payload,
                  IF Get(opts, "timeoutMs").t # "undefined"
                  THEN Obj(<<Entry("timeoutMs", Get(opts, "timeoutMs"))>>)
                  ELSE Undefined >>)
     ELSE Call("runAgent", <<Param(p, 1), payload>>)

AgentsRunsListCall(p) ==
  Call("listAgentRuns", <<Param(p, 1), Literal(Param(p, 2), <<"page", "limit">>)>>)

IncludeStepOutputs(opts) ==
  IF Truthy(Get(opts, "includeStepOutputs"))
  THEN Obj(<<Entry("includeStepOutputs", JsTrue)>>)
  ELSE Undefined

\* action(agentId, runId, opts) on a command that declares one argument.
AgentsRunsGetCall(p) ==
  Call("getAgentRun", <<Param(p, 2), IncludeStepOutputs(Param(p, 3))>>)

AgentsRunsDeleteCall(p) == Call("deleteAgentRun", <<Param(p, 1)>>)

\* action(runId, opts)
RunsGetCall(p) ==
  Call("getAgentRun", <<Param(p, 1), IncludeStepOutputs(Param(p, 2))>>)

RunsDeleteCall(p) == Call("deleteAgentRun", <<Param(p, 1)>>)

ContentsGetCall(p) ==
  Call("getContentDetail", <<Param(p, 1), Literal(Param(p, 2), <<"start", "end">>)>>)

ContentsDeleteCall(p) == Call("deleteContent", <<Param(p, 1)>>)

ContentsEmbeddingsCall(p) ==
  Call("listContentEmbeddings", <<Param(p, 1), Literal(Param(p, 2), <<"page", "limit">>)>>)

LeafCall(leaf, p, payload) ==
  CASE leaf = "sources list" -> SourcesListCall(p)
    [] leaf = "sources upload" -> SourcesUploadCall(p, payload)
    [] leaf = "agents run" -> AgentsRunCall(p, payload)
    [] leaf = "agents runs list" -> AgentsRunsListCall(p)
    [] leaf = "agents runs get" -> AgentsRunsGetCall(p)
    [] leaf = "agents runs delete" -> AgentsRunsDeleteCall(p)
    [] leaf = "runs get" -> RunsGetCall(p)
    [] leaf = "runs delete" -> RunsDeleteCall(p)
    [] leaf = "contents get" -> ContentsGetCall(p)
    [] leaf = "contents delete" -> ContentsDeleteCall(p)
    [] OTHER -> ContentsEmbeddingsCall(p)

\* What the action prints once its operation has resolved with res.
LeafPrints(leaf, res) ==
  IF leaf = "contents delete" THEN Obj(<<Entry("ok", JsTrue)>>) ELSE res

(***************************************************************************)
(* The world outside the process: local files, package.json, the client.   *)
(***************************************************************************)
\* readFile(path): the file's content, or undefined when it does not exist.
FileContent(path) ==
  CASE path = "run.json" -> Str(GoodJson)
    [] path = "bad.json" -> Str(BadJson)
    [] path = "doc.pdf" -> Str("%PDF-1.4")
    [] OTHER -> Undefined

Enoent(path) == PlainError("ENOENT: no such file or directory, open '" \o path \o "'")

\* Variant of GetCliVersion that ignores package.json.
GetCliVersionUnknown(pkgVersion) == "0.0.0"

\* getCliVersion: the version field of package.json when it is a string.
GetCliVersion(pkgVersion) == IF pkgVersion.t = "string" THEN pkgVersion.s ELSE "0.0.0"

DefaultBaseUrl == "https://api.seclai.com"

\* Variant of SeclaiOpts that falls back to a placeholder key.
SeclaiOptsPlaceholderKey(global, environment) ==
  Obj(<< Entry("apiKey", IF global.apiKey.t # "undefined" THEN global.apiKey
                         ELSE Str("anonymous")),
         Entry("baseUrl", Str(DefaultBaseUrl)) >>)

\* Variant of SeclaiOpts that ignores SECLAI_API_URL.
SeclaiOptsDefaultUrl(global, environment) ==
  Obj((IF global.apiKey.t # "undefined"
       THEN <<Entry("apiKey", global.apiKey)>> ELSE <<>>)
      \o <<Entry("baseUrl", Str(DefaultBaseUrl))>>)

\* createClient: the configuration object given to the client constructor.
SeclaiOpts(global, environment) ==
  LET envUrl == environment.SECLAI_API_URL
  IN Obj((IF global.apiKey.t # "undefined"
          THEN <<Entry("apiKey", global.apiKey)>> ELSE <<>>)
         \o <<Entry("baseUrl",
                    IF Truthy(envUrl) /\ envUrl.s # "" THEN envUrl
                    ELSE Str(DefaultBaseUrl))>>)

\* The client constructor rejects a configuration without any API key.
ConstructorThrows(seclaiOpts, environment) ==
  ~ Truthy(Get(seclaiOpts, "apiKey")) /\ ~ Truthy(environment.SECLAI_API_KEY)

\* How the awaited client operation settles.
Settled(kind, value, err) == [kind |-> kind, value |-> value, err |-> err]

Unsettled == Settled("none", Undefined, NoError)

OkResult == Obj(<<Entry("ok", JsTrue)>>)

ApiUrl == "https://example.invalid/api/sources/"

ClientOutcomes ==
  { Settled("resolve", OkResult, NoError),
    Settled("resolve", Undefined, NoError),
    Settled("reject", Undefined, StatusError("Unauthorized", "401", ApiUrl, Str("nope"))),
    Settled("reject", Undefined, StatusError("Not Found", "404", ApiUrl, Undefined)),
    Settled("reject", Undefined,
            ValidationError("Unprocessable", "422", ApiUrl, Str("nope"), Str("field required"))),
    Settled("reject", Undefined,
            ValidationError("Unprocessable", "422", ApiUrl, Undefined, Undefined)),
    Settled("reject", Undefined, PlainError("fetch failed")),
    Settled("reject", Undefined, ThrownValue("boom")) }

(***************************************************************************)
(* readJsonInput, as the steps it takes: which source it reads and what it *)
(* returns or throws.                                                      *)
(***************************************************************************)
JsonInput(ok, value, err, stdin, file) ==
  [ok |-> ok, value |-> value, err |-> err, stdin |-> stdin, file |-> file]

\* Variant of ParseText that accepts malformed text.
ParseTextLenient(text, stdin, file) == JsonInput(TRUE, JsonParse(text), NoError, stdin, file)

ParseText(text, stdin, file) ==
  LET v == JsonParse(text)
  IN IF v.t = "SyntaxError"
     THEN JsonInput(FALSE, Undefined, SyntaxError("Unexpected token in JSON"), stdin, file)
     ELSE JsonInput(TRUE, v, NoError, stdin, file)

\* Variant of ReadJsonInput without the check for conflicting sources.
ReadJsonInputNoConflict(opts, stdinText) ==
  LET json == Get(opts, "json")
      jsonFile == Get(opts, "jsonFile")
  IN CASE jsonFile.t # "undefined" ->
            IF jsonFile.s = "-" THEN ParseText(stdinText, 1, "")
            ELSE IF FileContent(jsonFile.s).t = "undefined"
                 THEN JsonInput(FALSE, Undefined, Enoent(jsonFile.s), 0, jsonFile.s)
                 ELSE ParseText(FileContent(jsonFile.s).s, 0, jsonFile.s)
       [] json.t # "undefined" ->
            IF json.s = "-" THEN ParseText(stdinText, 1, "")
            ELSE ParseText(json.s, 0, "")
       [] OTHER ->
            JsonInput(FALSE, Undefined,
                      PlainError("Missing JSON input. Provide --json or --json-file."), 0, "")

\* Variant of ReadJsonInput that takes `--json -` as the JSON text itself.
ReadJsonInputLiteralDash(opts, stdinText) ==
  LET json == Get(opts, "json")
      jsonFile == Get(opts, "jsonFile")
  IN CASE json.t # "undefined" /\ jsonFile.t # "undefined" ->
            JsonInput(FALSE, Undefined,
                      PlainError("Provide only one of --json or --json-file"), 0, "")
       [] jsonFile.t # "undefined" ->
            IF jsonFile.s = "-" THEN ParseText(stdinText, 1, "")
            ELSE IF FileContent(jsonFile.s).t = "undefined"
                 THEN JsonInput(FALSE, Undefined, Enoent(jsonFile.s), 0, jsonFile.s)
                 ELSE ParseText(FileContent(jsonFile.s).s, 0, jsonFile.s)
       [] json.t # "undefined" -> ParseText(json.s, 0, "")
       [] OTHER ->
            JsonInput(FALSE, Undefined,
                      PlainError("Missing JSON input. Provide --json or --json-file."), 0, "")

ReadJsonInput(opts, stdinText) ==
  LET json == Get(opts, "json")
      jsonFile == Get(opts, "jsonFile")
  IN CASE json.t # "undefined" /\ jsonFile.t # "undefined" ->
            JsonInput(FALSE, Undefined,
                      PlainError("Provide only one of --json or --json-file"), 0, "")
       [] jsonFile.t # "undefined" ->
            IF jsonFile.s = "-" THEN ParseText(stdinText, 1, "")
            ELSE IF FileContent(jsonFile.s).t = "undefined"
                 THEN JsonInput(FALSE, Undefined, Enoent(jsonFile.s), 0, jsonFile.s)
                 ELSE ParseText(FileContent(jsonFile.s).s, 0, jsonFile.s)
       [] json.t # "undefined" ->
            IF json.s = "-" THEN ParseText(stdinText, 1, "")
            ELSE ParseText(json.s, 0, "")
       [] OTHER ->
            JsonInput(FALSE, Undefined,
                      PlainError("Missing JSON input. Provide --json or --json-file."), 0, "")

\* The statement of a leaf action that follows createClient.
AfterCreateClient(leaf) ==
  CASE leaf = "sources upload" -> "read_file"
    [] leaf = "agents run" -> "read_json"
    [] OTHER -> "invoke"

\* Variants of FinalExitCode that look at one of the two codes only.
FinalExitCodeParserOnly(observed, parserCode) == parserCode

FinalExitCodeObservedOnly(observed, parserCode) == observed

\* runCli: const finalExitCode = observedExitCode !== 0 ? observedExitCode : exitCode
FinalExitCode(observed, parserCode) == IF observed # 0 THEN observed ELSE parserCode

(***************************************************************************)
(* State of one runCli invocation.                                         *)
(***************************************************************************)
VARIABLES
  argv,              \* the command line: top-level flag, --api-key, command words, positionals, options
  env,               \* process.env: SECLAI_API_KEY, SECLAI_API_URL
  world,             \* events of the input stream, package.json version, client capability, commander's excess-argument policy
  pc,                \* position of the invocation
  leaf,              \* the leaf whose action was dispatched ("" before that)
  params,            \* the values commander passed to the action
  payload,           \* the resolved request body or upload bytes
  ctorLog,           \* configuration objects given to the client constructor, in order
  calls,             \* client operations invoked, in order
  outcome,           \* how the awaited client operation settled
  thrown,            \* the value caught by run()
  rejected,          \* what parseAsync rejected with, caught by runCli
  io,                \* writes to writeOut / writeErr, in order
  rtExit,            \* codes passed to the runtime's setExitCode, in order
  observedExitCode,  \* runCli's observedExitCode
  exitCode,          \* runCli's exitCode
  ret,               \* the value runCli resolved with (-1 until then)
  stdinReads,        \* number of times the input stream was read
  fileReads,         \* paths given to readFile, in order
  data,              \* readStdinText: the text accumulated by the data listener
  emitted,           \* number of events the input stream has emitted to its listeners
  settles,           \* number of times readStdinText's promise was resolved or rejected
  entry,             \* the module's entrypoint guard: its position and the runCli calls it made
  repo,              \* the files the set-version script works on
  phase,             \* 1, or 2 for the repeat invocation of the alias comparison
  saved              \* what the first invocation of the alias comparison did

vars ==
  << argv, env, world, pc, leaf, params, payload, ctorLog, calls, outcome, thrown,
     rejected, io, rtExit, observedExitCode, exitCode, ret, stdinReads, fileReads,
     data, emitted, settles, entry, repo, phase, saved >>

inputs == <<argv, env, world>>

stream == <<data, emitted, settles>>

aside == <<entry, repo>>

harness == <<phase, saved>>

Rejection(is, hasCode, code, err) ==
  [is |-> is, hasCode |-> hasCode, code |-> code, err |-> err]

NotRejected == Rejection(FALSE, FALSE, 0, NoError)

Observed(i, c, k, r, x, o) ==
  [io |-> i, calls |-> c, ctorLog |-> k, ret |-> r, rtExit |-> x, outcome |-> o]

\* The command words typed in the first invocation, and what it did.
Saved(typed, seen) == [typed |-> typed, seen |-> seen]

NothingSaved == Saved(<<>>, Observed(<<>>, <<>>, <<>>, -1, <<>>, Unsettled))

(***************************************************************************)
(* Inputs.                                                                 *)
(***************************************************************************)
IdWord(i) == "id_" \o ToString(i)

ArgsOf(n) == [i \in 1..n |-> IdWord(i)]

\* Every way to type a path of the command tree, aliases included.
RECURSIVE PathsFrom(_)
PathsFrom(node) ==
  {<<>>} \cup
  UNION { { <<w>> \o rest : w \in {c.name, c.alias} \ {""}, rest \in PathsFrom(c.node) }
          : c \in Children(node) }

\* Command words the tests and the README type that createProgram declares
\* nowhere.
UndeclaredPaths == {<<"bogus">>, <<"contents", "upload">>, <<"contents", "replace">>}

TypedPaths == PathsFrom("seclai") \cup UndeclaredPaths

\* Options a command line can carry: the declared ones and --metadata, which
\* the tests and the README pass to the upload commands.
TypedFlags == AllFlags \cup {"metadata"}

\* The options typed with an upload command.
UploadFlags(node) ==
  IF node = "sources upload" THEN {"metadata"}
  ELSE IF node = "?" THEN {"file", "metadata", "file-name", "mime-type"}
  ELSE {}

RawProfile(json, jsonFile, file, page, start) ==
  [ f \in TypedFlags |->
      CASE f = "json" -> json
        [] f = "json-file" -> jsonFile
        [] f = "file" -> file
        [] f = "page" -> page
        [] f = "start" -> start
        [] f = "limit" -> "10"
        [] f = "sort" -> "created_at"
        [] f = "order" -> "asc"
        [] f = "account-id" -> "acc_1"
        [] f = "title" -> "Notes"
        [] f = "file-name" -> "hello.txt"
        [] f = "mime-type" -> "text/plain"
        [] f = "timeout-ms" -> "1234"
        [] f = "end" -> "5000"
        [] f = "metadata" -> "{\"category\":\"docs\"}"
        [] OTHER -> "" ]

RawProfiles ==
  { RawProfile(GoodJson, "run.json", "doc.pdf", "2", "0"),
    RawProfile("-", "-", "missing.pdf", "abc", "2"),
    RawProfile(BadJson, "bad.json", "doc.pdf", "2", "0"),
    RawProfile("{}", "missing.json", "doc.pdf", "2", "0") }

FlagChoices(node) ==
  IF node \in Leaves
  THEN { [k \in S |-> P[k]] : S \in SUBSET (RangeOf(OptionNames(node)) \cup UploadFlags(node)),
                              P \in RawProfiles }
  ELSE IF node = "?"
  THEN { [k \in S |-> P[k]] : S \in {{}, {"file"}, UploadFlags(node)}, P \in RawProfiles }
  ELSE { [k \in {} |-> ""] }

Argv(top, apiKey, cmd, args, flags) ==
  [top |-> top, apiKey |-> apiKey, cmd |-> cmd, args |-> args, flags |-> flags]

\* Command lines that are well-formed choices: options are those typed with
\* the command, and --help / --version come without further words.
WellFormed(a) ==
  /\ a.flags \in FlagChoices(Resolve("seclai", a.cmd))
  /\ a.top # "none" => a.args = <<>> /\ DOMAIN a.flags = {}

UsesStdin(a) ==
  \E k \in DOMAIN a.flags \cap {"json", "json-file"} : a.flags[k] = "-"

Excess(a) ==
  LET node == Resolve("seclai", a.cmd)
  IN node \in Leaves /\ Len(a.args) > Len(DeclaredArgs(node))

\* Events of the input stream, in the order the stream emits them.
Event(type, chunk) == [type |-> type, chunk |-> chunk]

StdinScripts ==
  { <<Event("data", GoodJson), Event("end", "")>>,
    <<Event("data", "{\"input\":"), Event("data", "\"hi\"}"), Event("end", "")>>,
    <<Event("data", BadJson), Event("end", "")>>,
    <<Event("data", GoodJson), Event("end", ""), Event("error", "")>>,
    <<Event("data", "{\"input\":"), Event("error", ""), Event("end", "")>>,
    <<Event("data", "{\"input\":")>> }

\* The error object a failing input stream emits.
StreamError == PlainError("read EIO")

\* The parts of the world an invocation can read at all; the others are fixed.
Worlds(a) ==
  [ allowExcess : IF Excess(a) THEN BOOLEAN ELSE {TRUE},
    stdin : IF UsesStdin(a) THEN StdinScripts
            ELSE {<<Event("data", GoodJson), Event("end", "")>>},
    hasStream : IF "stream" \in DOMAIN a.flags THEN BOOLEAN ELSE {TRUE},
    pkgVersion : IF a.top # "none" THEN {Str("1.2.3"), Undefined} ELSE {Str("1.2.3")} ]

Envs ==
  [ SECLAI_API_KEY : {Undefined, Str("envkey")},
    SECLAI_API_URL : {Undefined, Str(""), Str("https://example.invalid")} ]

(***************************************************************************)
(* The module's entrypoint guard, which runs when the module is loaded.    *)
(***************************************************************************)
SelfPath == "/app/dist/index.js"

\* import.meta.url of the module.
SelfUrl == "file://" \o SelfPath

LinkPath == "/usr/local/bin/seclai"

RunnerPath == "/app/node_modules/vitest/vitest.mjs"

GonePath == "/tmp/gone.js"

\* process.argv[1]: absent, the module itself, a symlink to it, another
\* script that imports the module, a path that no longer exists.
EntryPaths == {"", SelfPath, LinkPath, RunnerPath, GonePath}

\* realpathSync: "throw" when it throws.
Realpath(path, fsFails) ==
  IF fsFails \/ path = GonePath THEN "throw"
  ELSE IF path = LinkPath THEN SelfPath
  ELSE path

\* pathToFileURL(path).href
PathToFileUrl(path) == "file://" \o path

\* The guard's state: position, process.argv[1], whether the file system
\* calls fail, the number of runCli calls started and their results in
\* order (the exit code, or -1 for a rejection).
Guard(pc0, argv1, fsFails, started, results) ==
  [pc |-> pc0, argv1 |-> argv1, fsFails |-> fsFails, started |-> started, results |-> results]

\* The module was imported by a test, which calls runCli itself.
Imported == Guard("loaded", RunnerPath, FALSE, 0, <<>>)

(***************************************************************************)
(* scripts/set-version.mjs and the two files it works on.                  *)
(***************************************************************************)
MaxRuns == 4

\* A file's content: for a JSON file, its version field and how the text is
\* laid out; kind "absent" when the file does not exist.
File(kind, version, layout) == [kind |-> kind, version |-> version, layout |-> layout]

Absent == File("absent", "", "")

\* writeJson after pkg.version = version: JSON.stringify(obj, null, 2) + "\n"
WriteJson(version) == File("json", version, "indent2")

PackageJsons ==
  { File("json", "0.0.0", "indent2"), File("json", "1.2.3", "indent2"),
    File("json", "1.2.3", "tabs"), File("json", "", "indent2"),
    File("malformed", "", ""), Absent }

\* process.env.VERSION; "" when it is unset or empty.
Versions == {"", "2.0.0", "3.0.0-rc.1"}

\* package.json, .package.json.bak and the exit code of the last run, with
\* what the properties need to remember: package.json before the first apply
\* since the last restore, the number of applies since then, the number of
\* runs, the mode of the last apply or restore, and both files before the
\* last run.
Repo(packageJson, backup, before, applied, runs, last, exit, prev, prevBackup) ==
  [ packageJson |-> packageJson, backup |-> backup, before |-> before,
    applied |-> applied, runs |-> runs, last |-> last, exit |-> exit,
    prev |-> prev, prevBackup |-> prevBackup ]

\* The repository as checked out: no backup file, the script not yet run.
CheckedOut(packageJson) == Repo(packageJson, Absent, Absent, 0, 0, "", 0, Absent, Absent)

Untouched == CheckedOut(File("json", "1.2.3", "indent2"))

Fresh ==
  /\ pc = "start"
  /\ leaf = ""
  /\ params = <<>>
  /\ payload = Undefined
  /\ ctorLog = <<>>
  /\ calls = <<>>
  /\ outcome = Unsettled
  /\ thrown = NoError
  /\ rejected = NotRejected
  /\ io = <<>>
  /\ rtExit = <<>>
  /\ observedExitCode = 0
  /\ exitCode = 0
  /\ ret = -1
  /\ stdinReads = 0
  /\ fileReads = <<>>
  /\ data = ""
  /\ emitted = 0
  /\ settles = 0

Init ==
  /\ \E top \in {"none", "help", "version"}, k \in {Undefined, Str("k")},
        c \in TypedPaths, n \in 0..MaxArgs :
       \E f \in FlagChoices(Resolve("seclai", c)) :
         /\ argv = Argv(top, k, c, ArgsOf(n), f)
         /\ WellFormed(argv)
  /\ env \in Envs
  /\ world \in Worlds(argv)
  /\ Fresh
  /\ phase = 1
  /\ saved = NothingSaved
  /\ entry = Imported
  /\ repo = Untouched

(***************************************************************************)
(* Steps of runCli.                                                        *)
(***************************************************************************)
\* runCli up to `await program.parseAsync(argv)`: commander prints help or
\* the version, reports a usage error, or calls the leaf's action.
ParseArgv ==
  /\ pc = "start"
  /\ LET r == ParseOutcome(argv, GetCliVersion(world.pkgVersion), world.allowExcess)
     IN IF r.kind = "dispatch"
        THEN /\ leaf' = r.node
             /\ params' = r.params
             /\ pc' = "action"
             /\ UNCHANGED <<io, rejected>>
        ELSE /\ io' = Append(io, Write(IF r.kind \in {"help", "version"}
                                       THEN "out" ELSE "err", r.text))
             /\ rejected' = Rejection(TRUE, TRUE, r.code, NoError)
             /\ pc' = "rejected"
             /\ UNCHANGED <<leaf, params>>
  /\ UNCHANGED << inputs, harness, aside, stream, payload, ctorLog, calls, outcome, thrown, rtExit,
                  observedExitCode, exitCode, ret, stdinReads, fileReads >>

\* Variant of CreateClient that goes on without constructing the client.
CreateClientSkipped ==
  /\ pc = "action"
  /\ pc' = AfterCreateClient(leaf)
  /\ UNCHANGED << inputs, harness, aside, stream, leaf, params, payload, ctorLog, calls, outcome, thrown,
                  rejected, io, rtExit, observedExitCode, exitCode, ret, stdinReads,
                  fileReads >>

\* The first statements of every leaf action: program.opts(), createClient.
CreateClient ==
  /\ pc = "action"
  /\ LET seclaiOpts == SeclaiOpts([apiKey |-> argv.apiKey], env)
     IN /\ ctorLog' = Append(ctorLog, seclaiOpts)
        /\ IF ConstructorThrows(seclaiOpts, env)
           THEN /\ thrown' = ConfigurationError("Missing API key")
                /\ pc' = "run_catch"
           ELSE /\ pc' = AfterCreateClient(leaf)
                /\ UNCHANGED thrown
  /\ UNCHANGED << inputs, harness, aside, stream, leaf, params, payload, calls, outcome, rejected, io,
                  rtExit, observedExitCode, exitCode, ret, stdinReads, fileReads >>

\* sources upload: new Uint8Array(await readFile(opts.file))
ReadUploadFile ==
  /\ pc = "read_file"
  /\ LET path == Get(Param(params, 2), "file").s
     IN /\ fileReads' = Append(fileReads, path)
        /\ IF FileContent(path).t = "undefined"
           THEN /\ thrown' = Enoent(path)
                /\ pc' = "run_catch"
                /\ UNCHANGED payload
           ELSE /\ payload' = Bytes(FileContent(path).s)
                /\ pc' = "invoke"
                /\ UNCHANGED thrown
  /\ UNCHANGED << inputs, harness, aside, stream, leaf, params, ctorLog, calls, outcome, rejected, io,
                  rtExit, observedExitCode, exitCode, ret, stdinReads >>

\* agents run: await readJsonInput(rt, { json: opts.json, jsonFile: opts.jsonFile }),
\* up to its return, its throw, or the wait for readStdinText's promise
\* (whose listeners are attached at the call).
ResolveJsonInput ==
  /\ pc = "read_json"
  /\ LET r == ReadJsonInput(Param(params, 2), "")
     IN IF r.stdin = 1
        THEN /\ stdinReads' = stdinReads + 1
             /\ pc' = "read_stdin"
             /\ UNCHANGED <<fileReads, payload, thrown>>
        ELSE /\ fileReads' = IF r.file = "" THEN fileReads ELSE Append(fileReads, r.file)
             /\ UNCHANGED stdinReads
             /\ IF r.ok
                THEN /\ payload' = r.value
                     /\ pc' = "invoke"
                     /\ UNCHANGED thrown
                ELSE /\ thrown' = r.err
                     /\ pc' = "run_catch"
                     /\ UNCHANGED payload
  /\ UNCHANGED << inputs, harness, aside, stream, leaf, params, ctorLog, calls, outcome, rejected, io,
                  rtExit, observedExitCode, exitCode, ret >>

\* Variant of StdinEmits without the end listener.
StdinEmitsWithoutEnd ==
  /\ stdinReads > 0
  /\ emitted < Len(world.stdin)
  /\ LET e == world.stdin[emitted + 1]
         r == ReadJsonInput(Param(params, 2), data)
     IN /\ emitted' = emitted + 1
        /\ data' = IF e.type = "data" THEN data \o e.chunk ELSE data
        /\ settles' = IF e.type = "error" THEN settles + 1 ELSE settles
        /\ IF e.type = "error" /\ settles = 0
           THEN thrown' = StreamError /\ pc' = "run_catch" /\ UNCHANGED payload
           ELSE UNCHANGED <<pc, payload, thrown>>
  /\ UNCHANGED << inputs, harness, aside, leaf, params, ctorLog, calls, outcome, rejected, io,
                  rtExit, observedExitCode, exitCode, ret, stdinReads, fileReads >>

\* Variant of StdinEmits whose data listener puts each chunk in front.
StdinEmitsPrepends ==
  /\ stdinReads > 0
  /\ emitted < Len(world.stdin)
  /\ LET e == world.stdin[emitted + 1]
         r == ReadJsonInput(Param(params, 2), data)
     IN /\ emitted' = emitted + 1
        /\ data' = IF e.type = "data" THEN e.chunk \o data ELSE data
        /\ settles' = IF e.type = "data" THEN settles ELSE settles + 1
        /\ IF e.type = "end" /\ settles = 0
           THEN IF r.ok
                THEN payload' = r.value /\ pc' = "invoke" /\ UNCHANGED thrown
                ELSE thrown' = r.err /\ pc' = "run_catch" /\ UNCHANGED payload
           ELSE IF e.type = "error" /\ settles = 0
           THEN thrown' = StreamError /\ pc' = "run_catch" /\ UNCHANGED payload
           ELSE UNCHANGED <<pc, payload, thrown>>
  /\ UNCHANGED << inputs, harness, aside, leaf, params, ctorLog, calls, outcome, rejected, io,
                  rtExit, observedExitCode, exitCode, ret, stdinReads, fileReads >>

\* readStdinText's listeners: the input stream emits its next event.  A data
\* event appends the chunk; end resolves the promise with the text and error
\* rejects it; only the first of these settles the promise, and the action
\* awaiting it goes on with JSON.parse(text) or with the rejection.
StdinEmits ==
  /\ stdinReads > 0
  /\ emitted < Len(world.stdin)
  /\ LET e == world.stdin[emitted + 1]
         r == ReadJsonInput(Param(params, 2), data)
     IN /\ emitted' = emitted + 1
        /\ data' = IF e.type = "data" THEN data \o e.chunk ELSE data
        /\ settles' = IF e.type = "data" THEN settles ELSE settles + 1
        /\ IF e.type = "end" /\ settles = 0
           THEN IF r.ok
                THEN payload' = r.value /\ pc' = "invoke" /\ UNCHANGED thrown
                ELSE thrown' = r.err /\ pc' = "run_catch" /\ UNCHANGED payload
           ELSE IF e.type = "error" /\ settles = 0
           THEN thrown' = StreamError /\ pc' = "run_catch" /\ UNCHANGED payload
           ELSE UNCHANGED <<pc, payload, thrown>>
  /\ UNCHANGED << inputs, harness, aside, leaf, params, ctorLog, calls, outcome, rejected, io,
                  rtExit, observedExitCode, exitCode, ret, stdinReads, fileReads >>

\* Variant of MissingCapability that never finds the operation missing.
MissingCapabilityNever == FALSE

\* agents run --stream on a client without runStreamingAgentAndWait.
MissingCapability ==
  /\ leaf = "agents run"
  /\ Truthy(Get(Param(params, 2), "stream"))
  /\ ~ world.hasStream

\* The leaf action calls its client operation and awaits it.
InvokeClient ==
  /\ pc = "invoke"
  /\ IF MissingCapability
     THEN /\ thrown' = PlainError("This version of @seclai/sdk does not support streaming agent runs yet. "
                                   \o "Upgrade @seclai/sdk to a version that includes runStreamingAgentAndWait.")
          /\ pc' = "run_catch"
          /\ UNCHANGED calls
     ELSE /\ calls' = Append(calls, LeafCall(leaf, params, payload))
          /\ pc' = "pending"
          /\ UNCHANGED thrown
  /\ UNCHANGED << inputs, harness, aside, stream, leaf, params, payload, ctorLog, outcome, rejected, io,
                  rtExit, observedExitCode, exitCode, ret, stdinReads, fileReads >>

\* Variant of ClientSettles in which a rejected operation is invoked again.
ClientSettlesRetry ==
  /\ pc = "pending"
  /\ \E o \in ClientOutcomes :
       /\ phase = 2 => o = saved.seen.outcome
       /\ outcome' = o
       /\ IF o.kind = "resolve"
          THEN pc' = "print" /\ UNCHANGED thrown
          ELSE IF Len(calls) < 2
          THEN pc' = "invoke" /\ UNCHANGED thrown
          ELSE pc' = "run_catch" /\ thrown' = o.err
  /\ UNCHANGED << inputs, harness, aside, stream, leaf, params, payload, ctorLog, calls, rejected, io,
                  rtExit, observedExitCode, exitCode, ret, stdinReads, fileReads >>

\* The awaited operation resolves with a value or rejects with an error.
ClientSettles ==
  /\ pc = "pending"
  /\ \E o \in ClientOutcomes :
       /\ phase = 2 => o = saved.seen.outcome
       /\ outcome' = o
       /\ IF o.kind = "resolve"
          THEN pc' = "print" /\ UNCHANGED thrown
          ELSE pc' = "run_catch" /\ thrown' = o.err
  /\ UNCHANGED << inputs, harness, aside, stream, leaf, params, payload, ctorLog, calls, rejected, io,
                  rtExit, observedExitCode, exitCode, ret, stdinReads, fileReads >>

\* printJson(rt, res), the last statement of the action; parseAsync resolves.
PrintResult ==
  /\ pc = "print"
  /\ io' = io \o PrintJson(LeafPrints(leaf, outcome.value))
  /\ pc' = "final"
  /\ UNCHANGED << inputs, harness, aside, stream, leaf, params, payload, ctorLog, calls, outcome, thrown,
                  rejected, rtExit, observedExitCode, exitCode, ret, stdinReads, fileReads >>

\* Variant of RunCatch that throws the caught value again after reporting it.
RunCatchRethrow ==
  /\ pc = "run_catch"
  /\ io' = io \o PrintError(thrown)
  /\ observedExitCode' = 1
  /\ rtExit' = Append(rtExit, 1)
  /\ rejected' = Rejection(TRUE, FALSE, 0, thrown)
  /\ pc' = "rejected"
  /\ UNCHANGED << inputs, harness, aside, stream, leaf, params, payload, ctorLog, calls, outcome, thrown,
                  exitCode, ret, stdinReads, fileReads >>

\* Variant of RunCatch that reports the error and sets no exit code.
RunCatchNoExitCode ==
  /\ pc = "run_catch"
  /\ io' = io \o PrintError(thrown)
  /\ pc' = "final"
  /\ UNCHANGED << inputs, harness, aside, stream, leaf, params, payload, ctorLog, calls, outcome, thrown,
                  rejected, rtExit, observedExitCode, exitCode, ret, stdinReads, fileReads >>

\* run's catch: printError(rt, err); rt.setExitCode(1), on runCli's wrapped
\* runtime, which records the code and forwards it; parseAsync resolves.
RunCatch ==
  /\ pc = "run_catch"
  /\ io' = io \o PrintError(thrown)
  /\ observedExitCode' = 1
  /\ rtExit' = Append(rtExit, 1)
  /\ pc' = "final"
  /\ UNCHANGED << inputs, harness, aside, stream, leaf, params, payload, ctorLog, calls, outcome, thrown,
                  rejected, exitCode, ret, stdinReads, fileReads >>

\* runCli's catch around parseAsync.
CatchRejection ==
  /\ pc = "rejected"
  /\ IF rejected.hasCode
     THEN /\ exitCode' = rejected.code
          /\ UNCHANGED io
     ELSE /\ io' = io \o PrintError(rejected.err)
          /\ exitCode' = 1
  /\ pc' = "final"
  /\ UNCHANGED << inputs, harness, aside, stream, leaf, params, payload, ctorLog, calls, outcome, thrown,
                  rejected, rtExit, observedExitCode, ret, stdinReads, fileReads >>

\* Variant of Finish that hands the parser's code to the runtime.
FinishParserCode ==
  /\ pc = "final"
  /\ LET finalExitCode == FinalExitCode(observedExitCode, exitCode)
     IN /\ observedExitCode' = exitCode
        /\ rtExit' = Append(rtExit, exitCode)
        /\ ret' = finalExitCode
  /\ pc' = "done"
  /\ UNCHANGED << inputs, harness, aside, stream, leaf, params, payload, ctorLog, calls, outcome, thrown,
                  rejected, io, exitCode, stdinReads, fileReads >>

\* runCli's last three statements.
Finish ==
  /\ pc = "final"
  /\ LET finalExitCode == FinalExitCode(observedExitCode, exitCode)
     IN /\ observedExitCode' = finalExitCode
        /\ rtExit' = Append(rtExit, finalExitCode)
        /\ ret' = finalExitCode
  /\ pc' = "done"
  /\ UNCHANGED << inputs, harness, aside, stream, leaf, params, payload, ctorLog, calls, outcome, thrown,
                  rejected, io, exitCode, stdinReads, fileReads >>

Next ==
  \/ ParseArgv
  \/ CreateClient
  \/ ReadUploadFile
  \/ ResolveJsonInput
  \/ StdinEmits
  \/ InvokeClient
  \/ ClientSettles
  \/ PrintResult
  \/ RunCatch
  \/ CatchRejection
  \/ Finish

Spec == Init /\ [][Next]_vars

\* A step of the program itself, as opposed to a step of the input stream
\* or of the remote service.
ProgramStep ==
  \/ ParseArgv
  \/ CreateClient
  \/ ReadUploadFile
  \/ ResolveJsonInput
  \/ InvokeClient
  \/ PrintResult
  \/ RunCatch
  \/ CatchRejection
  \/ Finish

\* The event loop runs every continuation that is ready; the input stream
\* goes on emitting the events it has, file reads complete, and the client
\* call settles.  The invocations are those of Init with the base URL left
\* at its default and at most one positional argument.
InitLive ==
  /\ Init
  /\ env.SECLAI_API_URL = Undefined
  /\ Len(argv.args) <= 1

SpecLive ==
  /\ InitLive /\ [][Next]_vars
  /\ WF_vars(ProgramStep)
  /\ WF_vars(StdinEmits)
  /\ WF_vars(ClientSettles)

(***************************************************************************)
(* Views of the state used by the properties.                              *)
(***************************************************************************)
Done == pc = "done"

OutWrites == SelectSeq(io, LAMBDA w : w.sink = "out")

ErrWrites == SelectSeq(io, LAMBDA w : w.sink = "err")

\* The leaf action ran and some step of it failed.
LeafFailed == leaf # "" /\ thrown # NoError

Supplied(flag) == flag \in DOMAIN argv.flags

(***************************************************************************)
(* The alias comparison: the same command line is run a second time in a   *)
(* fresh runtime with every alias replaced by the group's own name, against *)
(* a client that settles the same way.                                     *)
(***************************************************************************)
RECURSIVE CanonicalPath(_, _)
CanonicalPath(node, words) ==
  IF Len(words) = 0 THEN <<>>
  ELSE LET m == {c \in Children(node) : Head(words) \in {c.name, c.alias} \ {""}}
       IN IF m = {} THEN words
          ELSE LET c == CHOOSE d \in m : TRUE
               IN <<c.name>> \o CanonicalPath(c.node, Tail(words))

UsesAlias(a) == CanonicalPath("seclai", a.cmd) # a.cmd

Repeat ==
  /\ pc = "done"
  /\ phase = 1
  /\ saved' = Saved(argv.cmd, Observed(io, calls, ctorLog, ret, rtExit, outcome))
  /\ phase' = 2
  /\ argv' = [argv EXCEPT !.cmd = CanonicalPath("seclai", argv.cmd)]
  /\ pc' = "start"
  /\ leaf' = ""
  /\ params' = <<>>
  /\ payload' = Undefined
  /\ ctorLog' = <<>>
  /\ calls' = <<>>
  /\ outcome' = Unsettled
  /\ thrown' = NoError
  /\ rejected' = NotRejected
  /\ io' = <<>>
  /\ rtExit' = <<>>
  /\ observedExitCode' = 0
  /\ exitCode' = 0
  /\ ret' = -1
  /\ stdinReads' = 0
  /\ fileReads' = <<>>
  /\ data' = ""
  /\ emitted' = 0
  /\ settles' = 0
  /\ UNCHANGED <<env, world, aside>>

NextAlias == Next \/ Repeat

SpecAlias == Init /\ [][NextAlias]_vars

(***************************************************************************)
(* The module executed or imported by node: the entrypoint guard decides   *)
(* whether to call runCli(process.argv), whose steps are those above.      *)
(***************************************************************************)
InitEntry ==
  /\ \E top \in {"none", "help", "version"}, k \in {Undefined, Str("k")},
        c \in TypedPaths, n \in 0..MaxArgs :
       \E f \in FlagChoices(Resolve("seclai", c)) :
         /\ argv = Argv(top, k, c, ArgsOf(n), f)
         /\ WellFormed(argv)
  /\ env \in Envs
  /\ world \in Worlds(argv)
  /\ Fresh
  /\ phase = 1
  /\ saved = NothingSaved
  /\ \E p \in EntryPaths, f \in BOOLEAN : entry = Guard("load", p, f, 0, <<>>)
  /\ repo = Untouched

\* if (process.argv[1]) { try { ... realpathSync ... if (entryReal === selfReal)
GuardTry ==
  /\ entry.pc = "load"
  /\ LET entryReal == Realpath(entry.argv1, entry.fsFails)
         selfReal == Realpath(SelfPath, entry.fsFails)
     IN entry' =
          IF entry.argv1 = "" THEN [entry EXCEPT !.pc = "loaded"]
          ELSE IF entryReal = "throw" \/ selfReal = "throw"
          THEN [entry EXCEPT !.pc = "catch"]
          ELSE IF entryReal = selfReal
          THEN [entry EXCEPT !.pc = "await_try", !.started = @ + 1]
          ELSE [entry EXCEPT !.pc = "loaded"]
  /\ UNCHANGED << inputs, harness, stream, repo, pc, leaf, params, payload, ctorLog, calls,
                  outcome, thrown, rejected, io, rtExit, observedExitCode, exitCode, ret,
                  stdinReads, fileReads >>

\* catch { ... if (import.meta.url === entryHref) await runCli(process.argv) }:
\* entered when something in the try block threw, the awaited runCli call
\* included.
GuardCatch ==
  /\ entry.pc = "catch"
  /\ IF SelfUrl = PathToFileUrl(entry.argv1)
     THEN /\ entry' = [entry EXCEPT !.pc = "await_catch", !.started = @ + 1]
          /\ pc' = "start"
          /\ leaf' = ""
          /\ params' = <<>>
          /\ payload' = Undefined
          /\ ctorLog' = <<>>
          /\ calls' = <<>>
          /\ outcome' = Unsettled
          /\ thrown' = NoError
          /\ rejected' = NotRejected
          /\ io' = <<>>
          /\ rtExit' = <<>>
          /\ observedExitCode' = 0
          /\ exitCode' = 0
          /\ ret' = -1
          /\ stdinReads' = 0
          /\ fileReads' = <<>>
          /\ data' = ""
          /\ emitted' = 0
          /\ settles' = 0
     ELSE /\ entry' = [entry EXCEPT !.pc = "loaded"]
          /\ UNCHANGED << stream, pc, leaf, params, payload, ctorLog, calls, outcome, thrown,
                          rejected, io, rtExit, observedExitCode, exitCode, ret, stdinReads,
                          fileReads >>
  /\ UNCHANGED << inputs, harness, repo >>

Awaiting == entry.pc \in {"await_try", "await_catch"}

\* printError's rt.writeErr throws in run's catch and again in runCli's
\* catch: the promise runCli returned rejects.
ErrorSinkThrows ==
  /\ Awaiting
  /\ pc = "run_catch"
  /\ pc' = "threw"
  /\ UNCHANGED << inputs, harness, aside, stream, leaf, params, payload, ctorLog, calls,
                  outcome, thrown, rejected, io, rtExit, observedExitCode, exitCode, ret,
                  stdinReads, fileReads >>

\* The awaited runCli call resolves, or rejects into the enclosing block.
RunCliSettles ==
  /\ Awaiting
  /\ pc \in {"done", "threw"}
  /\ entry' =
       [entry EXCEPT !.results = Append(@, IF pc = "done" THEN ret ELSE -1),
                     !.pc = IF pc = "done" THEN "loaded"
                            ELSE IF entry.pc = "await_try" THEN "catch"
                            ELSE "failed"]
  /\ UNCHANGED << inputs, harness, stream, repo, pc, leaf, params, payload, ctorLog, calls,
                  outcome, thrown, rejected, io, rtExit, observedExitCode, exitCode, ret,
                  stdinReads, fileReads >>

NextEntry ==
  \/ GuardTry
  \/ GuardCatch
  \/ ErrorSinkThrows
  \/ RunCliSettles
  \/ Awaiting /\ Next

SpecEntry == InitEntry /\ [][NextEntry]_vars

(***************************************************************************)
(* Runs of scripts/set-version.mjs on a checked-out repository.            *)
(***************************************************************************)
InitSetVersion ==
  /\ argv = Argv("none", Undefined, <<>>, <<>>, <<>>)
  /\ env = [SECLAI_API_KEY |-> Undefined, SECLAI_API_URL |-> Undefined]
  /\ world \in Worlds(argv)
  /\ Fresh
  /\ phase = 1
  /\ saved = NothingSaved
  /\ entry = Imported
  /\ \E p \in PackageJsons : repo = CheckedOut(p)

\* What a run leaves in the record besides the files.
Ran(r, mode, exit) ==
  LET first == mode = "apply" /\ (r.applied = 0 \/ r.last = "restore")
  IN [r EXCEPT !.runs = @ + 1,
               !.exit = exit,
               !.last = IF mode = "usage" THEN @ ELSE mode,
               !.before = IF first THEN r.packageJson ELSE @,
               !.applied = IF mode = "apply" THEN (IF first THEN 1 ELSE @ + 1)
                           ELSE IF mode = "restore" /\ r.last = "restore" THEN 0
                           ELSE @,
               !.prev = r.packageJson,
               !.prevBackup = r.backup]

\* Variant of SetVersionApply that copies package.json to the backup on
\* every run.
SetVersionApplyOverwritesBackup ==
  /\ repo.runs < MaxRuns
  /\ \E version \in Versions :
       LET base == Ran(repo, "apply", 0)
       IN repo' =
            IF version = ""
            THEN [base EXCEPT !.exit = 2]
            ELSE IF repo.packageJson = Absent
            THEN [base EXCEPT !.exit = 1]
            ELSE IF repo.packageJson.kind # "json"
            THEN [base EXCEPT !.backup = repo.packageJson, !.exit = 1]
            ELSE [base EXCEPT !.backup = repo.packageJson,
                              !.packageJson = WriteJson(version)]
  /\ UNCHANGED << inputs, harness, stream, entry, pc, leaf, params, payload, ctorLog,
                  calls, outcome, thrown, rejected, io, rtExit, observedExitCode, exitCode,
                  ret, stdinReads, fileReads >>

\* node scripts/set-version.mjs apply: exit 2 without VERSION; otherwise
\* copy package.json to the backup unless a backup exists, then read
\* package.json, set its version and write it back.  copyFileSync and
\* readJson throw (exit 1) on a missing or malformed package.json.
SetVersionApply ==
  /\ repo.runs < MaxRuns
  /\ \E version \in Versions :
       LET base == Ran(repo, "apply", 0)
           copied == IF repo.backup = Absent THEN repo.packageJson ELSE repo.backup
       IN repo' =
            IF version = ""
            THEN [base EXCEPT !.exit = 2]
            ELSE IF repo.backup = Absent /\ repo.packageJson = Absent
            THEN [base EXCEPT !.exit = 1]
            ELSE IF repo.packageJson.kind # "json"
            THEN [base EXCEPT !.backup = copied, !.exit = 1]
            ELSE [base EXCEPT !.backup = copied, !.packageJson = WriteJson(version)]
  /\ UNCHANGED << inputs, harness, stream, entry, pc, leaf, params, payload, ctorLog,
                  calls, outcome, thrown, rejected, io, rtExit, observedExitCode, exitCode,
                  ret, stdinReads, fileReads >>

\* node scripts/set-version.mjs restore: when the backup exists, copy it
\* over package.json and remove it.
SetVersionRestore ==
  /\ repo.runs < MaxRuns
  /\ LET base == Ran(repo, "restore", 0)
     IN repo' = IF repo.backup # Absent
                THEN [base EXCEPT !.packageJson = repo.backup, !.backup = Absent]
                ELSE base
  /\ UNCHANGED << inputs, harness, stream, entry, pc, leaf, params, payload, ctorLog,
                  calls, outcome, thrown, rejected, io, rtExit, observedExitCode, exitCode,
                  ret, stdinReads, fileReads >>

\* Any other mode: the usage line and exit code 2.
SetVersionUsage ==
  /\ repo.runs < MaxRuns
  /\ repo' = Ran(repo, "usage", 2)
  /\ UNCHANGED << inputs, harness, stream, entry, pc, leaf, params, payload, ctorLog,
                  calls, outcome, thrown, rejected, io, rtExit, observedExitCode, exitCode,
                  ret, stdinReads, fileReads >>

NextSetVersion ==
  \/ SetVersionApply
  \/ SetVersionRestore
  \/ SetVersionUsage

SpecSetVersion == InitSetVersion /\ [][NextSetVersion]_vars

(***************************************************************************)
(* Properties.                                                             *)
(***************************************************************************)
NoApiKey == argv.apiKey.t = "undefined" /\ env.SECLAI_API_KEY.t = "undefined"

ConflictingJson == leaf = "agents run" /\ Supplied("json") /\ Supplied("json-file")

ConflictDiagnostic == PrintError(PlainError("Provide only one of --json or --json-file"))

ConfigurationDiagnostic == PrintError(ConfigurationError("Missing API key"))

OkText == "{\n  \"ok\": true\n}\n"

\* C1: when any step of a leaf command fails, nothing is written to the
\* output sink during that invocation.
C1_NoOutputOnFailure == LeafFailed => OutWrites = <<>>

\* C2: the options object a leaf passes to its client operation has only
\* keys of flags the user supplied.
C2_OnlySuppliedKeys ==
  /\ leaf \in { "sources list", "agents runs list", "contents get",
                "contents embeddings", "sources upload", "runs get" }
  /\ calls # <<>>
  => LET options == calls[1].args[Len(calls[1].args)]
     IN Keys(options) \subseteq {Camel(f) : f \in DOMAIN argv.flags}

\* C3 as stated: --json together with --json-file fails with the local
\* input error and exit code 1 before any client is constructed.
C3_FailsBeforeConstruction ==
  Done /\ ConflictingJson =>
    /\ ret = 1
    /\ io = ConflictDiagnostic
    /\ ctorLog = <<>>

\* C3 amended: --json together with --json-file ends with exit code 1 and no
\* client operation invoked; the client is constructed first, exactly once,
\* so the diagnostic is the local input error when construction succeeds and
\* the Configuration error when it fails.
C3_ConflictFailsAfterConstruction ==
  Done /\ ConflictingJson =>
    /\ ret = 1
    /\ calls = <<>>
    /\ stdinReads = 0 /\ fileReads = <<>>
    /\ Len(ctorLog) = 1
    /\ io = IF NoApiKey THEN ConfigurationDiagnostic ELSE ConflictDiagnostic

C3_Witness == Done /\ ConflictingJson /\ ~ NoApiKey /\ io = ConflictDiagnostic

\* C4: with no API key available, a leaf invocation ends with the
\* Configuration diagnostic on the error sink and exit code 1, and no client
\* operation is ever invoked.
C4_MissingKeyIsConfigurationFailure ==
  NoApiKey =>
    /\ calls = <<>>
    /\ Done /\ leaf # "" => ret = 1 /\ io = ConfigurationDiagnostic

C4_Witness ==
  /\ Done /\ NoApiKey /\ leaf = "agents run" /\ ~ Supplied("json")
  /\ io = ConfigurationDiagnostic

\* C5: an invocation through an alias group name issues the same client
\* calls with the same arguments, writes the same output and ends with the
\* same exit code as the invocation through the group's own name.
C5_AliasSameBehaviour ==
  phase = 2 /\ Done => Observed(io, calls, ctorLog, ret, rtExit, outcome) = saved.seen

C5_Witness ==
  /\ phase = 2 /\ Done /\ calls # <<>>
  /\ saved.typed = <<"agent-runs", "get">> /\ Supplied("include-step-outputs")
  /\ saved.seen.calls = calls

\* C6: `agents runs get R` calls getAgentRun with the string R and with
\* {includeStepOutputs: true} exactly when the flag was supplied.
C6_AgentsRunsGetCall ==
  leaf = "agents runs get" /\ calls # <<>> =>
    calls[1] = Call("getAgentRun",
                    << Str(argv.args[1]),
                       IF Supplied("include-step-outputs")
                       THEN Obj(<<Entry("includeStepOutputs", JsTrue)>>)
                       ELSE Undefined >>)

\* C7: a delete command whose operation resolves with no payload prints
\* the acknowledgment {"ok": true} to the output sink.
C7_DeletePrintsOk ==
  /\ Done
  /\ leaf \in {"contents delete", "runs delete", "agents runs delete"}
  /\ outcome = Settled("resolve", Undefined, NoError)
  => OutWrites = <<Write("out", OkText)>>

\* C8: a group typed without a leaf prints the help text, constructs no
\* client, and runCli resolves with 0.
C8_GroupOnlyExitsZero ==
  /\ Done
  /\ argv.top = "none" /\ argv.args = <<>>
  /\ Resolve("seclai", argv.cmd) \in Groups \ {"seclai"}
  => /\ ret = 0
     /\ ctorLog = <<>>
     /\ Len(io) = 1 /\ io[1].text = HelpText(Resolve("seclai", argv.cmd))

\* C9: a non-zero code given to setExitCode while the command ran is the code
\* runCli returns and last sets on the runtime; only when there was none is
\* the parser's exit code used.
C9_ObservedCodeWins ==
  Done =>
    LET during == SubSeq(rtExit, 1, Len(rtExit) - 1)
        nonZero == {c \in RangeOf(during) : c # 0}
    IN /\ \A c \in nonZero : ret = c
       /\ nonZero = {} => ret = (IF rejected.is THEN rejected.code ELSE 0)
       /\ rtExit[Len(rtExit)] = ret

C9_Witness == Done /\ rtExit = <<1, 1>> /\ ret = 1

\* C10: runCli resolves with 0 when the leaf's operation resolved and for
\* --help / --version, with 1 when a step of a leaf failed, with the parser's
\* non-zero code for a usage error; no failing invocation resolves with 0.
C10_ExitCodes ==
  Done =>
    /\ outcome.kind = "resolve" => ret = 0
    /\ argv.top \in {"help", "version"} => ret = 0
    /\ LeafFailed => ret = 1
    /\ rejected.is /\ rejected.code # 0 => ret = rejected.code
    /\ (LeafFailed \/ ErrWrites # <<>> \/ (rejected.is /\ rejected.code # 0)) => ret # 0

C10_Witness ==
  /\ Done /\ leaf = "sources upload" /\ ret = 1
  /\ thrown = Enoent("missing.pdf")

\* The lines an API status failure is reported with.
StatusLines(e) ==
  << Write("err", e.name \o ": " \o e.message \o "\n"),
     Write("err", "status: " \o e.statusCode \o "\n"),
     Write("err", "url: " \o e.url \o "\n") >>
  \o (IF e.responseText.t = "string" /\ e.responseText.s # ""
      THEN <<Write("err", "response: " \o e.responseText.s \o "\n")>>
      ELSE <<>>)

\* C11: a client operation failing with an API status error puts on the
\* error sink, in order, `<name>: <message>`, `status: S`, `url: U` and, when
\* a response body is present, `response: <body>`; the exit code is 1.
C11_StatusErrorReport ==
  Done /\ outcome.kind = "reject" /\ outcome.err.cls = "SeclaiAPIStatusError" =>
    /\ ErrWrites = StatusLines(outcome.err)
    /\ ret = 1

C11_Witness ==
  /\ Done /\ ret = 1
  /\ outcome.err = StatusError("Unauthorized", "401", ApiUrl, Str("nope"))
  /\ Len(ErrWrites) = 4 /\ ErrWrites[2].text = "status: 401\n"

\* C12: a client operation failing with an API validation error that carries
\* validation detail is reported on the error sink only: the status lines and
\* last the detail as pretty JSON under the key validationError.
C12_ValidationReportOnErrorSink ==
  /\ Done /\ outcome.kind = "reject"
  /\ outcome.err.cls = "SeclaiAPIValidationError"
  /\ outcome.err.validationError.t # "undefined"
  => /\ OutWrites = <<>>
     /\ ErrWrites =
          StatusLines(outcome.err)
          \o <<Write("err", "{\n  \"validationError\": "
                            \o ScalarJson(outcome.err.validationError.t,
                                          outcome.err.validationError.s)
                            \o "\n}\n")>>

\* C13: every value caught by run is reported and the exit code set to 1
\* without anything propagating to runCli's own catch, and runCli always goes
\* on to resolve: with 1 after a caught value.
C13_NormalizerIsTerminal ==
  /\ thrown # NoError /\ pc \in {"final", "done"} =>
       /\ ~ rejected.is
       /\ rtExit # <<>> /\ rtExit[1] = 1
       /\ io # <<>> /\ io[1].sink = "err"
  /\ thrown # NoError /\ Done => ret = 1
  /\ thrown # NoError /\ ~ Done /\ pc # "read_stdin" => ENABLED Next

C13_Witness == Done /\ thrown = ThrownValue("boom") /\ ret = 1 /\ Len(io) = 2

\* What readStdinText's promise settles with: the index of the first end or
\* error event of the input stream (0 when there is none) and the chunks
\* before it, concatenated in order.
FirstTerminal ==
  LET T == {i \in 1..Len(world.stdin) : world.stdin[i].type # "data"}
  IN IF T = {} THEN 0 ELSE CHOOSE i \in T : \A j \in T : i <= j

RECURSIVE Concat(_)
Concat(chunks) == IF chunks = <<>> THEN "" ELSE Head(chunks) \o Concat(Tail(chunks))

StdinEnds == FirstTerminal # 0 /\ world.stdin[FirstTerminal].type = "end"

StdinFails == FirstTerminal # 0 /\ world.stdin[FirstTerminal].type = "error"

StdinText == Concat([i \in 1..(FirstTerminal - 1) |-> world.stdin[i].chunk])

\* The text the command line designates as the JSON payload of agents run,
\* when exactly one of --json and --json-file is supplied.
InputText ==
  LET raw == IF Supplied("json-file") THEN argv.flags["json-file"] ELSE argv.flags["json"]
  IN IF raw = "-" THEN (IF StdinEnds THEN Str(StdinText) ELSE Undefined)
     ELSE IF Supplied("json-file") THEN FileContent(raw)
     ELSE Str(raw)

OneInputSource == Supplied("json") # Supplied("json-file")

InputResolves ==
  /\ OneInputSource
  /\ InputText.t = "string"
  /\ JsonParse(InputText.s).t # "SyntaxError"

\* C14: agents run with --stream calls runStreamingAgentAndWait exactly once,
\* with the agent id, the parsed payload and {timeoutMs: n} when --timeout-ms
\* is supplied and no options object otherwise, and never runAgent; without
\* --stream it calls runAgent(agentId, payload) exactly once and never the
\* streaming operation.
C14_AgentsRunCall ==
  leaf = "agents run" =>
    /\ Len(calls) <= 1
    /\ pc \in {"pending", "print"} \/ outcome # Unsettled => Len(calls) = 1
    /\ Done /\ ~ NoApiKey /\ InputResolves /\ ~ MissingCapability => Len(calls) = 1
    /\ calls # <<>> =>
         /\ InputResolves
         /\ calls[1] =
              IF Supplied("stream")
              THEN Call("runStreamingAgentAndWait",
                        << Str(argv.args[1]), JsonParse(InputText.s),
                           IF Supplied("timeout-ms")
                           THEN Obj(<<Entry("timeoutMs", Num(argv.flags["timeout-ms"]))>>)
                           ELSE Undefined >>)
              ELSE Call("runAgent", <<Str(argv.args[1]), JsonParse(InputText.s)>>)

C14_Witness ==
  /\ Done /\ leaf = "agents run" /\ Supplied("stream") /\ ~ Supplied("timeout-ms")
  /\ Len(calls) = 1 /\ calls[1].op = "runStreamingAgentAndWait"
  /\ calls[1].args[3] = Undefined

CapabilityDiagnostic ==
  <<Write("err", "Error: This version of @seclai/sdk does not support streaming agent runs yet. "
                 \o "Upgrade @seclai/sdk to a version that includes runStreamingAgentAndWait.\n")>>

StreamWithoutCapability == leaf = "agents run" /\ Supplied("stream") /\ ~ world.hasStream

\* C15 as stated: agents run --stream on a client without
\* runStreamingAgentAndWait always ends with the missing-capability error and
\* exit code 1, with no client operation invoked.
C15_CapabilityFailureAlways ==
  Done /\ StreamWithoutCapability =>
    /\ ret = 1
    /\ calls = <<>>
    /\ io = CapabilityDiagnostic

\* C15, amended: agents run --stream on a client without
\* runStreamingAgentAndWait ends with exit code 1 and no client operation
\* invoked, neither runAgent nor any other; when the client was constructed
\* and the payload resolved, the one diagnostic is the missing-capability
\* error, and otherwise it is the failure of that earlier step.
C15_CapabilityFailureAfterInput ==
  /\ StreamWithoutCapability => calls = <<>> /\ outcome = Unsettled
  /\ Done /\ StreamWithoutCapability =>
       /\ ret = 1
       /\ OutWrites = <<>>
       /\ IF ~ NoApiKey /\ InputResolves
          THEN io = CapabilityDiagnostic
          ELSE io # CapabilityDiagnostic /\ Len(io) = 1 /\ io[1].sink = "err"

C15_Witness ==
  /\ Done /\ StreamWithoutCapability /\ InputResolves
  /\ io = CapabilityDiagnostic /\ ret = 1 /\ Len(ctorLog) = 1

\* Exactly one of --json and --json-file is supplied, with the value `-`.
StdinDesignated ==
  /\ OneInputSource
  /\ (IF Supplied("json-file") THEN argv.flags["json-file"] ELSE argv.flags["json"]) = "-"

\* C16: `--json -` and `--json-file -` resolve the payload from the input
\* stream; the input stream is read at most once in an invocation, and never
\* when neither option has the value `-`.
C16_StdinReadAtMostOnce ==
  /\ stdinReads <= 1
  /\ ~ UsesStdin(argv) => stdinReads = 0
  /\ leaf = "agents run" /\ StdinDesignated =>
       /\ pc \in {"invoke", "pending", "print"} => stdinReads = 1
       /\ Done /\ ~ NoApiKey => stdinReads = 1
       /\ calls # <<>> => StdinEnds /\ calls[1].args[2] = JsonParse(StdinText)
       /\ Done /\ ~ NoApiKey /\ JsonParse(StdinText).t = "SyntaxError" =>
            calls = <<>> /\ ret = 1

C16_Witness ==
  /\ Done /\ leaf = "agents run" /\ Supplied("json") /\ ~ Supplied("json-file")
  /\ argv.flags["json"] = "-"
  /\ stdinReads = 1 /\ Len(calls) = 1 /\ calls[1].args[2] = JsonParse(GoodJson)

NoInputSource == ~ Supplied("json") /\ ~ Supplied("json-file")

MalformedInput ==
  OneInputSource /\ InputText.t = "string" /\ JsonParse(InputText.s).t = "SyntaxError"

\* C17: agents run with neither --json nor --json-file, or with a resolved
\* text that is malformed JSON, ends with exit code 1 and a diagnostic on the
\* error sink, and invokes neither runAgent nor runStreamingAgentAndWait.
C17_LocalInputFailure ==
  leaf = "agents run" /\ (NoInputSource \/ MalformedInput) =>
    /\ calls = <<>>
    /\ Done =>
         /\ ret = 1
         /\ OutWrites = <<>>
         /\ ErrWrites # <<>>
         /\ ~ NoApiKey =>
              io = IF NoInputSource
                   THEN <<Write("err", "Error: Missing JSON input. Provide --json or --json-file.\n")>>
                   ELSE <<Write("err", "SyntaxError: Unexpected token in JSON\n")>>

C17_Witness ==
  /\ Done /\ leaf = "agents run" /\ MalformedInput /\ ~ NoApiKey
  /\ ret = 1 /\ calls = <<>> /\ Len(io) = 1 /\ io[1].sink = "err"

\* C18: sources upload <id> --file <path> --metadata <json> succeeds and
\* calls uploadFileToSource once with an options object holding the file
\* bytes and a metadata field.
C18_SourcesUploadMetadata ==
  /\ Done /\ argv.top = "none" /\ ~ NoApiKey
  /\ Resolve("seclai", argv.cmd) = "sources upload" /\ Len(argv.args) = 1
  /\ Supplied("file") /\ argv.flags["file"] = "doc.pdf" /\ Supplied("metadata")
  /\ outcome.kind = "resolve" \/ outcome = Unsettled
  => /\ ret = 0
     /\ Len(calls) = 1
     /\ calls[1].op = "uploadFileToSource"
     /\ calls[1].args[1] = Str(argv.args[1])
     /\ Get(calls[1].args[2], "file") = Bytes("%PDF-1.4")
     /\ "metadata" \in Keys(calls[1].args[2])

\* C19: contents upload <contentVersionId> --file <path>, also typed as
\* contents replace, reads the file and calls uploadFileToContent exactly
\* once with the content version id and an options object holding the file
\* bytes.
C19_ContentsUpload ==
  /\ Done /\ argv.top = "none" /\ ~ NoApiKey
  /\ argv.cmd \in {<<"contents", "upload">>, <<"contents", "replace">>}
  /\ Len(argv.args) = 1
  /\ Supplied("file") /\ argv.flags["file"] = "doc.pdf"
  => /\ fileReads = <<"doc.pdf">>
     /\ Len(calls) = 1
     /\ calls[1].op = "uploadFileToContent"
     /\ calls[1].args[1] = Str(argv.args[1])
     /\ Get(calls[1].args[2], "file") = Bytes("%PDF-1.4")

\* C20: --version writes the version configured in package.json followed by
\* one newline to the output sink and nothing else, constructs no client, and
\* runCli resolves with 0.
C20_VersionOutput ==
  Done /\ argv.top = "version" =>
    /\ io = <<Write("out", (IF world.pkgVersion.t = "string"
                            THEN world.pkgVersion.s ELSE "0.0.0") \o "\n")>>
    /\ ctorLog = <<>>
    /\ calls = <<>>
    /\ ret = 0

C20_Witness ==
  /\ Done /\ argv.top = "version" /\ world.pkgVersion = Str("1.2.3")
  /\ io = <<Write("out", "1.2.3\n")>> /\ ret = 0 /\ ctorLog = <<>>

UnknownPath ==
  LET node == Resolve("seclai", argv.cmd)
  IN node = "?" \/ (node \in Groups /\ Len(argv.args) > 0)

UnknownFlag ==
  LET node == Resolve("seclai", argv.cmd)
  IN node \in Leaves /\ ~ (DOMAIN argv.flags \subseteq RangeOf(OptionNames(node)))

\* C21 as stated: a command line with an unknown command path or an unknown
\* flag never runs a leaf action, constructs no client, writes nothing to the
\* output sink and ends with a non-zero exit code.
C21_UnknownIsAlwaysError ==
  UnknownPath \/ UnknownFlag =>
    /\ leaf = "" /\ ctorLog = <<>> /\ calls = <<>>
    /\ OutWrites = <<>>
    /\ Done => ret # 0

\* C21, amended: an unknown command path or an unknown flag never runs a leaf
\* action and constructs no client; unless --help or --version is also given
\* (which print to the output sink and end with 0), nothing is written to the
\* output sink, the usage error is written to the error sink and runCli
\* resolves with a non-zero exit code.
C21_UnknownIsParseError ==
  UnknownPath \/ UnknownFlag =>
    /\ leaf = "" /\ ctorLog = <<>> /\ calls = <<>>
    /\ stdinReads = 0 /\ fileReads = <<>>
    /\ Done =>
         IF argv.top = "none"
         THEN OutWrites = <<>> /\ Len(ErrWrites) = 1 /\ ret # 0
         ELSE ErrWrites = <<>> /\ Len(OutWrites) = 1 /\ ret = 0

C21_Witness ==
  /\ Done /\ argv.top = "none" /\ UnknownFlag
  /\ Supplied("file") /\ Len(argv.args) = 1
  /\ io = <<Write("err", "error: unknown option\n")>> /\ ret = 1

\* C22: an invocation that selects a leaf constructs the client exactly once
\* and invokes at most one client operation, exactly one when it succeeds;
\* an operation that failed is not invoked again.
C22_OneClientOneCall ==
  leaf # "" =>
    /\ Len(ctorLog) <= 1
    /\ pc # "action" => Len(ctorLog) = 1
    /\ Len(calls) <= 1
    /\ Done /\ ret = 0 => Len(calls) = 1 /\ outcome.kind = "resolve"
    /\ outcome.kind = "reject" => Len(calls) = 1

C22_Witness ==
  /\ Done /\ leaf = "sources list" /\ outcome.kind = "reject"
  /\ Len(calls) = 1 /\ Len(ctorLog) = 1 /\ ret = 1

\* C23: a failure raised while a leaf command executes is reported exactly
\* once: what is written is one rendering of the failure by printError, and
\* the failure does not reach runCli's own catch.
C23_ReportedOnce ==
  LeafFailed /\ pc \in {"final", "done"} =>
    /\ io = PrintError(thrown)
    /\ ~ rejected.is
    /\ exitCode = 0
    /\ Done => rtExit = <<1, 1>>

C23_Witness ==
  /\ Done /\ LeafFailed /\ thrown = PlainError("fetch failed")
  /\ io = <<Write("err", "Error: fetch failed\n")>> /\ ~ rejected.is

\* C24: in a leaf action the client is constructed before any payload or
\* upload file is resolved; when the construction fails, the input stream is
\* not read, no file is read, and the failure reported is the construction
\* failure, whatever the state of the JSON input.
C24_ConstructionBeforeInput ==
  /\ stdinReads > 0 \/ fileReads # <<>> \/ payload # Undefined =>
       Len(ctorLog) = 1 /\ ~ NoApiKey
  /\ leaf # "" /\ NoApiKey /\ pc # "action" =>
       /\ thrown = ConfigurationError("Missing API key")
       /\ stdinReads = 0 /\ fileReads = <<>> /\ payload = Undefined
  /\ Done /\ NoApiKey /\ leaf \in {"agents run", "sources upload"} =>
       io = ConfigurationDiagnostic /\ ret = 1

C24_Witness ==
  /\ Done /\ NoApiKey /\ leaf = "agents run" /\ StdinDesignated
  /\ StdinEnds /\ StdinText = BadJson
  /\ stdinReads = 0 /\ io = ConfigurationDiagnostic /\ ret = 1

\* C25: reading the input stream yields the chunks concatenated in arrival
\* order and completes only at the stream's end event; an error event before
\* end fails the read and the command ends with exit code 1 and no client
\* operation; the read settles once, whatever events follow.
C25_StdinRead ==
  stdinReads > 0 =>
    /\ pc = "read_stdin" <=> (FirstTerminal = 0 \/ emitted < FirstTerminal)
    /\ data = Concat([i \in 1..emitted |->
                        IF world.stdin[i].type = "data" THEN world.stdin[i].chunk ELSE ""])
    /\ pc # "read_stdin" /\ StdinEnds /\ JsonParse(StdinText).t # "SyntaxError" =>
         payload = JsonParse(StdinText) /\ thrown.cls # "SyntaxError" /\ thrown # StreamError
    /\ pc # "read_stdin" /\ StdinEnds /\ JsonParse(StdinText).t = "SyntaxError" =>
         thrown.cls = "SyntaxError" /\ calls = <<>>
    /\ pc # "read_stdin" /\ StdinFails =>
         /\ thrown = StreamError /\ payload = Undefined /\ calls = <<>>
         /\ Done => ret = 1 /\ io = <<Write("err", "Error: read EIO\n")>>

C25_Witness ==
  /\ Done /\ stdinReads = 1 /\ StdinFails /\ emitted = Len(world.stdin)
  /\ settles = 2 /\ ret = 1 /\ calls = <<>>

\* C26: the configuration given to the client constructor always carries
\* baseUrl, which is SECLAI_API_URL when that is set and non-empty and
\* https://api.seclai.com otherwise, whatever the command line; it carries
\* apiKey exactly when --api-key was supplied.
C26_ClientConfiguration ==
  /\ leaf # "" /\ pc # "action" => Len(ctorLog) = 1
  /\ \A i \in 1..Len(ctorLog) :
       /\ Keys(ctorLog[i]) \subseteq {"apiKey", "baseUrl"}
       /\ "baseUrl" \in Keys(ctorLog[i])
       /\ Get(ctorLog[i], "baseUrl") =
            IF env.SECLAI_API_URL.t = "string" /\ env.SECLAI_API_URL.s # ""
            THEN env.SECLAI_API_URL
            ELSE Str("https://api.seclai.com")
       /\ "apiKey" \in Keys(ctorLog[i]) <=> argv.apiKey.t # "undefined"
       /\ argv.apiKey.t # "undefined" => Get(ctorLog[i], "apiKey") = argv.apiKey

C26_Witness ==
  /\ Done /\ Len(ctorLog) = 1 /\ env.SECLAI_API_URL = Str("https://example.invalid")
  /\ Get(ctorLog[1], "baseUrl") = Str("https://example.invalid")
  /\ Keys(ctorLog[1]) = {"baseUrl"} /\ ret = 0

\* The module was loaded by another script (process.argv[1] names neither
\* the module nor a link to it) or without a script.
LoadedByImport == entry.argv1 \in {"", RunnerPath}

\* C27: loading the module starts runCli at most once, also when the first
\* runCli call rejects or the real-path comparison fails, and not at all when
\* the module is imported rather than executed.
C27_RunCliAtMostOnce ==
  /\ entry.started <= 1
  /\ LoadedByImport => entry.started = 0

\* C28: when runCli resolves, the runtime's setExitCode has been called at
\* least once, the last value it received is the value runCli returns, and
\* that last value is not zero when the command set a non-zero code before.
C28_LastExitCodeIsReturned ==
  /\ Done =>
       /\ Len(rtExit) >= 1
       /\ rtExit[Len(rtExit)] = ret
       /\ (\E i \in 1..(Len(rtExit) - 1) : rtExit[i] # 0) => rtExit[Len(rtExit)] # 0
       /\ outcome.kind = "resolve" => rtExit = <<0>>
  /\ ~ Done => Len(rtExit) <= 1 /\ \A i \in 1..Len(rtExit) : rtExit[i] = 1

C28_Witness == Done /\ outcome.kind = "resolve" /\ rtExit = <<0>> /\ ret = 0

\* The input stream emits end or error at some point.
StdinTerminates == FirstTerminal # 0

\* C29: when the input stream emits end or error, file reads complete and
\* the client call settles, runCli eventually resolves with an exit code.
C29_EventuallyResolves == <>(StdinTerminates => Done /\ ret >= 0)

C29_Witness ==
  /\ Done /\ leaf = "agents run" /\ StdinDesignated /\ stdinReads = 1
  /\ emitted >= FirstTerminal /\ outcome.kind = "resolve" /\ ret = 0

\* C30: after one or more apply runs, with any VERSION values, followed by a
\* restore, package.json is what it was before the first apply and the
\* backup file is gone; an apply never overwrites an existing backup; a
\* restore without a backup leaves package.json as it was.
C30_RestoreUndoesApplies ==
  /\ repo.last = "restore" =>
       /\ repo.backup = Absent
       /\ repo.applied >= 1 => repo.packageJson = repo.before
  /\ repo.backup # Absent =>
       repo.last = "apply" /\ repo.applied >= 1 /\ repo.backup = repo.before
  /\ repo.last = "restore" /\ repo.prevBackup = Absent /\ repo.exit # 2 =>
       repo.packageJson = repo.prev

C30_Witness ==
  /\ repo.last = "restore" /\ repo.applied >= 2 /\ repo.exit = 0
  /\ repo.before = File("json", "1.2.3", "tabs")
  /\ repo.packageJson = repo.before /\ repo.backup = Absent
  /\ repo.prev = WriteJson("3.0.0-rc.1")

====
